---- MODULE Spec2Model ----
(***************************************************************************)
(* Model of test-websocket-client.py: a Socket.IO diagnostic client that   *)
(* connects to http://localhost:3000, joins a conversation room from its   *)
(* connected callback, prints nine kinds of inbound events and sleeps      *)
(* until a keyboard interrupt.                                             *)
(*                                                                         *)
(* Two threads act on the state: the main thread (module body, lines       *)
(* 80-94) and the client library's background delivery thread, which       *)
(* invokes the registered handlers (lines 18-78).  The client is built by  *)
(* socketio.Client() with no arguments (line 16), hence with the           *)
(* library's default reconnection=True: after a server-initiated drop the  *)
(* library re-establishes the session and invokes connect() again.         *)
(*                                                                         *)
(* Standard output is a sequence of printed lines.  The emoji that start   *)
(* the program's labels are left out of the strings (the strings of this   *)
(* language are ASCII); the rest of every label is verbatim.               *)
(***************************************************************************)
EXTENDS Integers, Sequences, FiniteSets, TLC

VARIABLES
    argv,             \* sys.argv[1:], fixed at process start
    pc,               \* main thread: "start", "connecting", "loop", "done"
    exitStatus,       \* <<>> while the process runs, <<code>> once it exited
    sessions,         \* session ids of the sessions currently connected
    connects,         \* number of library-level connected callbacks so far
    reconnecting,     \* the library's reconnect task is active
    emitted,          \* outbound application messages, in order of emission
    output,           \* standard output, one element per printed line
    received,         \* inbound events delivered to the client, in order
    connectCalls,     \* number of sio.connect() calls made by the script
    disconnectCalls   \* number of sio.disconnect() calls made by the script

vars == <<argv, pc, exitStatus, sessions, connects, reconnecting, emitted,
          output, received, connectCalls, disconnectCalls>>

\* ------------------------------------------------------------------ bounds
MaxEvents == 1        \* inbound events delivered in one run
MaxConnects == 2      \* connected callbacks in one run

\* -------------------------------------------------------------- input sets
\* command lines: no argument, one argument, two arguments
Argvs == { <<>>, <<"conv-1">>, <<"conv-2", "extra">> }

\* a payload is a mapping, written as its sequence of <<key, value>> items
Payloads == { <<>>, << <<"id", 7>>, <<"n", 0>> >> }

\* texts of the exceptions sio.connect() can raise
ErrorTexts == { "Connection refused by the server" }

\* ---------------------------------------------------------- pure functions
DefaultConversationId == "42327374-aef7-4b04-81b9-0e54ce42a44e"

CONVERSATION_ID_Default(args) == DefaultConversationId

\* line 10: sys.argv[1] if len(sys.argv) > 1 else the default literal
CONVERSATION_ID(args) ==
    IF Len(args) > 0 THEN args[1] ELSE DefaultConversationId

\* str() of a mapping, as the f-strings render a payload
RECURSIVE PyItems(_)
PyItems(d) ==
    IF d = <<>> THEN ""
    ELSE "'" \o d[1][1] \o "': " \o ToString(d[1][2])
         \o (IF Len(d) > 1 THEN ", " \o PyItems(Tail(d)) ELSE "")

PyStr(d) == "{" \o PyItems(d) \o "}"

\* the opaque session id the server assigns to the n-th session
SidText(n) == "sid-" \o ToString(n)

\* lines 12-14
Banner(args) ==
    << "Connecting to WebSocket server...",
       "   URL: http://localhost:3000",
       "   Conversation ID: " \o CONVERSATION_ID(args),
       "" >>

\* --------------------------------------------------------------- handlers
\* Each handler is given by the lines it prints.

\* lines 20-24: what connect() prints
connectLines(args, sid) ==
    << "Connected to server",
       "   Socket ID: " \o SidText(sid),
       "",
       "Joining conversation: " \o CONVERSATION_ID(args) >>

\* lines 25-28: the message connect() emits
JoinMessage(args) ==
    [event |-> "join:conversation",
     data  |-> [conversationId |-> CONVERSATION_ID(args),
                username |-> "python-test-client"]]

connectEmits_None(args) == << >>

connectEmits(args) == << JoinMessage(args) >>

\* lines 30-34
joined(data) ==
    << "Successfully joined conversation",
       "   Data: " \o PyStr(data),
       "", "Listening for events...", "" >>

\* lines 36-38
disconnect == << "Disconnected from server" >>

\* lines 40-43
on_agent_spawned(data) == << "Agent Spawned:", "   " \o PyStr(data) >>

on_agent_status_Swapped(data) == << "Agent Spawned:", "   " \o PyStr(data) >>

\* lines 45-48
on_agent_status(data) == << "Agent Status:", "   " \o PyStr(data) >>

\* lines 50-53
on_agent_message(data) == << "Agent Message:", "   " \o PyStr(data) >>

\* lines 55-58
on_task_created(data) == << "Task Created:", "   " \o PyStr(data) >>

\* lines 60-63
on_task_updated(data) == << "Task Updated:", "   " \o PyStr(data) >>

\* lines 65-68
on_query_progress(data) == << "Query Progress:", "   " \o PyStr(data) >>

\* lines 70-73
on_query_completed(data) == << "Query Completed:", "   " \o PyStr(data) >>

\* lines 75-78
on_error(data) == << "Error:", "   " \o PyStr(data) >>

\* the event names the decorators of lines 30-78 register a handler for
\* (connect and disconnect are library-level callbacks, not events)
HandledEvents ==
    { "joined", "agent:spawned", "agent:status", "agent:message",
      "task:created", "task:updated", "query:progress", "query:completed",
      "error" }

\* event names a server may send that the client has no handler for
OtherEvents == { "agent:removed" }

EventNames == HandledEvents \cup OtherEvents

\* the handler table: what the handler registered for name prints
Handler(name, data) ==
    CASE name = "joined"          -> joined(data)
      [] name = "agent:spawned"   -> on_agent_spawned(data)
      [] name = "agent:status"    -> on_agent_status(data)
      [] name = "agent:message"   -> on_agent_message(data)
      [] name = "task:created"    -> on_task_created(data)
      [] name = "task:updated"    -> on_task_updated(data)
      [] name = "query:progress"  -> on_query_progress(data)
      [] name = "query:completed" -> on_query_completed(data)
      [] name = "error"           -> on_error(data)

Dispatch_CatchAll(name, data) ==
    IF name \in HandledEvents THEN Handler(name, data)
    ELSE << "Unknown event:", "   " \o PyStr(data) >>

\* the library's dispatch: the handler registered for the name, if any;
\* no catch-all handler is registered
Dispatch(name, data) ==
    IF name \in HandledEvents THEN Handler(name, data) ELSE << >>

\* ------------------------------------------------------------------- Init
Init ==
    /\ argv \in Argvs
    /\ pc = "start"
    /\ exitStatus = << >>
    /\ sessions = {}
    /\ connects = 0
    /\ reconnecting = FALSE
    /\ emitted = << >>
    /\ output = Banner(argv)
    /\ received = << >>
    /\ connectCalls = 0
    /\ disconnectCalls = 0

Running == pc # "done"
Connected == sessions # {}

\* ---------------------------------------------------------------- actions
\* line 81: the main thread enters sio.connect()
CallConnect ==
    /\ pc = "start"
    /\ pc' = "connecting"
    /\ connectCalls' = connectCalls + 1
    /\ UNCHANGED <<argv, exitStatus, sessions, connects, reconnecting,
                   emitted, output, received, disconnectCalls>>

\* the library-level connected callback: a session is established and the
\* background thread runs connect() (lines 18-28)
OnConnected ==
    /\ connects' = connects + 1
    /\ sessions' = sessions \cup {connects + 1}
    /\ reconnecting' = FALSE
    /\ output' = output \o connectLines(argv, connects + 1)
    /\ emitted' = emitted \o connectEmits(argv)
    /\ UNCHANGED <<argv, pc, exitStatus, received, connectCalls,
                   disconnectCalls>>

\* the first session, established while the main thread is in sio.connect()
Established ==
    /\ pc = "connecting"
    /\ connects = 0
    /\ sessions = {}
    /\ OnConnected

\* line 81 returns, line 83 prints, the main thread enters the sleep loop
ConnectReturns ==
    /\ pc = "connecting"
    /\ connects > 0
    /\ output' = output \o << "Press Ctrl+C to exit", "" >>
    /\ pc' = "loop"
    /\ UNCHANGED <<argv, exitStatus, sessions, connects, reconnecting,
                   emitted, received, connectCalls, disconnectCalls>>

ConnectRaises_Exit0(e) ==
    /\ pc = "connecting"
    /\ connects = 0
    /\ output' = Append(output, "Error: " \o e)
    /\ pc' = "done"
    /\ exitStatus' = << 0 >>
    /\ UNCHANGED <<argv, sessions, connects, reconnecting, emitted,
                   received, connectCalls, disconnectCalls>>

\* line 81 raises before a session exists; lines 92-94
ConnectRaises(e) ==
    /\ pc = "connecting"
    /\ connects = 0
    /\ output' = Append(output, "Error: " \o e)
    /\ pc' = "done"
    /\ exitStatus' = << 1 >>
    /\ UNCHANGED <<argv, sessions, connects, reconnecting, emitted,
                   received, connectCalls, disconnectCalls>>

ServerDrop_Exits ==
    /\ Running
    /\ Connected
    /\ sessions' = {}
    /\ reconnecting' = FALSE
    /\ output' = output \o disconnect
    /\ pc' = "done"
    /\ exitStatus' = << 0 >>
    /\ UNCHANGED <<argv, connects, emitted, received, connectCalls,
                   disconnectCalls>>

\* the server (or the network) drops the session: the library-level
\* disconnected callback runs disconnect() (lines 36-38), and the library
\* starts its reconnect task (line 16: reconnection is on by default)
ServerDrop ==
    /\ Running
    /\ Connected
    /\ sessions' = {}
    /\ reconnecting' = TRUE
    /\ output' = output \o disconnect
    /\ UNCHANGED <<argv, pc, exitStatus, connects, emitted, received,
                   connectCalls, disconnectCalls>>

Reconnect_Unguarded ==
    /\ Running
    /\ connects > 0
    /\ connects < MaxConnects
    /\ OnConnected

\* the library's reconnect task re-establishes the session after a drop;
\* the connected callback runs connect() again
Reconnect ==
    /\ Running
    /\ reconnecting
    /\ sessions = {}
    /\ connects < MaxConnects
    /\ OnConnected

Deliver_ErrorExits(name, data) ==
    /\ Running
    /\ Connected
    /\ Len(received) < MaxEvents
    /\ received' = Append(received, [name |-> name, data |-> data])
    /\ output' = output \o Dispatch(name, data)
    /\ IF name = "error"
       THEN pc' = "done" /\ exitStatus' = << 1 >>
       ELSE UNCHANGED <<pc, exitStatus>>
    /\ UNCHANGED <<argv, sessions, connects, reconnecting,
                   emitted, connectCalls, disconnectCalls>>

\* the background thread delivers an inbound event of the session: the
\* handler registered for its name runs (lines 30-34, 40-78)
Deliver(name, data) ==
    /\ Running
    /\ Connected
    /\ Len(received) < MaxEvents
    /\ received' = Append(received, [name |-> name, data |-> data])
    /\ output' = output \o Dispatch(name, data)
    /\ UNCHANGED <<argv, pc, exitStatus, sessions, connects, reconnecting,
                   emitted, connectCalls, disconnectCalls>>

KeyboardInterrupt_NoDisconnect ==
    /\ pc \in {"connecting", "loop"}
    /\ output' = output \o << "", "", "Disconnecting..." >>
    /\ pc' = "done"
    /\ exitStatus' = << 0 >>
    /\ UNCHANGED <<argv, sessions, reconnecting, connects, emitted,
                   received, connectCalls, disconnectCalls>>

KeyboardInterrupt_KeepsSession ==
    /\ pc \in {"connecting", "loop"}
    /\ output' = output \o << "", "", "Disconnecting..." >>
    /\ disconnectCalls' = disconnectCalls + 1
    /\ pc' = "done"
    /\ exitStatus' = << 0 >>
    /\ UNCHANGED <<argv, sessions, reconnecting, connects,
                   emitted, received, connectCalls>>

\* lines 89-91: a keyboard interrupt inside sio.connect() or the sleep
\* loop; the script prints, calls sio.disconnect() (which closes the
\* session, running disconnect(), and stops the reconnect task), and the
\* module body ends: exit code 0
KeyboardInterrupt ==
    /\ pc \in {"connecting", "loop"}
    /\ output' = output \o << "", "", "Disconnecting..." >>
                        \o (IF Connected THEN disconnect ELSE << >>)
    /\ disconnectCalls' = disconnectCalls + 1
    /\ sessions' = {}
    /\ reconnecting' = FALSE
    /\ pc' = "done"
    /\ exitStatus' = << 0 >>
    /\ UNCHANGED <<argv, connects, emitted, received, connectCalls>>

Next ==
    \/ CallConnect
    \/ Established
    \/ ConnectReturns
    \/ \E e \in ErrorTexts : ConnectRaises(e)
    \/ ServerDrop
    \/ Reconnect
    \/ \E name \in EventNames, data \in Payloads : Deliver(name, data)
    \/ KeyboardInterrupt

Spec == Init /\ [][Next]_vars

TypeOK ==
    /\ argv \in Argvs
    /\ pc \in {"start", "connecting", "loop", "done"}
    /\ exitStatus \in { << >>, << 0 >>, << 1 >> }
    /\ sessions \subseteq 1..(MaxConnects + 1)
    /\ connects \in 0..(MaxConnects + 1)
    /\ reconnecting \in BOOLEAN
    /\ Len(received) <= MaxEvents

\* ----------------------------------------------------------------- claims
\* a step that delivers an inbound event, and the event it delivers
Delivery == Len(received') = Len(received) + 1
Delivered == received'[Len(received')]

\* C1: every library-level connected callback emits exactly one message,
\* join:conversation, whose conversationId is the first CLI argument when
\* one is given and the literal default otherwise, and whose username is
\* python-test-client; the callback emits nothing else.
C1_JoinOnConnected ==
    [][connects' = connects + 1 =>
         emitted' = Append(emitted,
            [event |-> "join:conversation",
             data  |-> [conversationId |->
                           IF argv = << >>
                           THEN "42327374-aef7-4b04-81b9-0e54ce42a44e"
                           ELSE Head(argv),
                        username |-> "python-test-client"]])]_vars

C1_Witness ==
    /\ connects > 0
    /\ argv = << >>
    /\ Len(emitted) > 0
    /\ emitted[1].data.conversationId = DefaultConversationId

\* C2 as stated: over a whole run join:conversation is emitted at most
\* once, only after the connection is established, and nothing else is
\* emitted.
C2_Original ==
    /\ Len(emitted) <= 1
    /\ (Len(emitted) > 0 => connects > 0)
    /\ \A i \in 1..Len(emitted) : emitted[i].event = "join:conversation"

\* C2 amended: join:conversation is emitted exactly once per connection
\* establishment (the emissions are as many as the connected callbacks),
\* only after a connection is established, and nothing else is emitted.
C2_OncePerConnection ==
    /\ Len(emitted) = connects
    /\ (Len(emitted) > 0 => connects > 0)
    /\ \A i \in 1..Len(emitted) : emitted[i].event = "join:conversation"

C2_Witness ==
    /\ connects = 2
    /\ Len(emitted) = 2
    /\ Connected

\* C3: when the connection attempt raises before a session exists, the
\* process prints an error line and exits with code 1, join:conversation
\* is never sent in that run and sio.disconnect() is not called.
C3_ConnectFailure ==
    /\ [][(pc = "connecting" /\ pc' = "done"
             /\ disconnectCalls' = disconnectCalls) =>
          /\ exitStatus' = << 1 >>
          /\ \E e \in ErrorTexts : output' = Append(output, "Error: " \o e)]_vars
    /\ [](exitStatus = << 1 >> =>
            /\ pc = "done"
            /\ emitted = << >>
            /\ connects = 0
            /\ disconnectCalls = 0)

C3_Witness ==
    /\ pc = "done"
    /\ exitStatus = << 1 >>
    /\ connectCalls = 1
    /\ output[Len(output)] = "Error: Connection refused by the server"

\* C4: a keyboard interrupt delivered while the client is Connected makes
\* the script call sio.disconnect() exactly once and the process end with
\* exit code 0; there is never a second disconnect call.
C4_InterruptWhileConnected ==
    /\ [][(KeyboardInterrupt /\ Connected) =>
          /\ disconnectCalls = 0
          /\ disconnectCalls' = 1
          /\ pc' = "done"
          /\ exitStatus' = << 0 >>]_vars
    /\ [](disconnectCalls <= 1)
    /\ []((pc = "done" /\ connects > 0) =>
             (disconnectCalls = 1 /\ exitStatus = << 0 >>))

C4_Witness ==
    /\ pc = "done"
    /\ exitStatus = << 0 >>
    /\ disconnectCalls = 1
    /\ Len(output) > 1
    /\ output[Len(output)] = "Disconnected from server"
    /\ output[Len(output) - 1] = "Disconnecting..."

\* C5 as stated: delivering one of the nine recognized events produces
\* one line of output.
C5_Original ==
    [][(Delivery /\ Delivered.name \in HandledEvents) =>
          Len(output') = Len(output) + 1]_vars

C5_Label(name) ==
    CASE name = "joined"          -> "Successfully joined conversation"
      [] name = "agent:spawned"   -> "Agent Spawned:"
      [] name = "agent:status"    -> "Agent Status:"
      [] name = "agent:message"   -> "Agent Message:"
      [] name = "task:created"    -> "Task Created:"
      [] name = "task:updated"    -> "Task Updated:"
      [] name = "query:progress"  -> "Query Progress:"
      [] name = "query:completed" -> "Query Completed:"
      [] name = "error"           -> "Error:"

C5_Rendering(data) ==
    CASE data = << >> -> "{}"
      [] data = << <<"id", 7>>, <<"n", 0>> >> -> "{'id': 7, 'n': 0}"

\* C5 amended: delivering one of the nine recognized events runs only the
\* handler registered for its name, which prints the event's fixed label
\* on one line and the rendering of the payload on the next line (joined
\* prints the rendering after "Data: " and then its listening notice
\* between two empty lines); no other handler prints.
C5_LabelThenPayload ==
    [][(Delivery /\ Delivered.name \in HandledEvents) =>
          output' = output \o
             (IF Delivered.name = "joined"
              THEN << C5_Label("joined"),
                      "   Data: " \o C5_Rendering(Delivered.data),
                      "", "Listening for events...", "" >>
              ELSE << C5_Label(Delivered.name),
                      "   " \o C5_Rendering(Delivered.data) >>)]_vars

C5_Witness ==
    /\ Len(received) > 0
    /\ received[1].name = "joined"
    /\ received[1].data # << >>
    /\ output[Len(output) - 1] = "Listening for events..."

\* C6: delivering an event that has no registered handler prints nothing
\* and changes nothing: output, connection state, emitted messages and
\* exit status stay as they were.
C6_UnhandledIgnored ==
    [][(Delivery /\ Delivered.name \notin HandledEvents) =>
          UNCHANGED <<output, sessions, reconnecting, connects, emitted,
                      pc, exitStatus, connectCalls, disconnectCalls>>]_vars

C6_Witness ==
    /\ Len(received) > 0
    /\ received[1].name = "agent:removed"
    /\ pc = "loop"

\* C7: delivering any inbound event, the error event included, only
\* appends to standard output: connection state, emitted messages, the
\* main thread's position and the exit status are unchanged.
C7_HandlersOnlyPrint ==
    [][Delivery =>
          /\ UNCHANGED <<sessions, reconnecting, connects, emitted, pc,
                         exitStatus, connectCalls, disconnectCalls>>
          /\ Len(output') >= Len(output)
          /\ SubSeq(output', 1, Len(output)) = output]_vars

C7_Witness ==
    /\ Len(received) > 0
    /\ received[1].name = "error"
    /\ pc = "loop"
    /\ Connected

\* C8 as stated: once the connection has gone from Connected to
\* Disconnected it never becomes Connected again, and the connected
\* callback fires at most once per run.
C8_Original ==
    [][(connects > 0 /\ ~Connected) => (~Connected' /\ connects' = connects)]_vars

\* C8 amended: the connection is Disconnected or Connected; after the
\* local interrupt has closed it, it never becomes Connected again; the
\* connected callback fires again only after a server-initiated drop,
\* through the client library's default reconnection.
C8_ReconnectOnlyAfterDrop ==
    /\ [](disconnectCalls > 0 => (~Connected /\ ~reconnecting))
    /\ [][disconnectCalls > 0 => (~Connected' /\ connects' = connects)]_vars
    /\ [][(connects > 0 /\ connects' > connects) =>
             (reconnecting /\ ~Connected /\ disconnectCalls = 0)]_vars

C8_Witness ==
    /\ connects = 2
    /\ disconnectCalls = 1
    /\ ~Connected
    /\ pc = "done"

\* C9: there is at most one active connection in every reachable state,
\* and the script calls sio.connect() at most once.
C9_OneConnection ==
    /\ Cardinality(sessions) <= 1
    /\ connectCalls <= 1

C9_Witness ==
    /\ connects = 2
    /\ sessions = {2}
    /\ connectCalls = 1

\* C10: after a successful connect the process ends only by a keyboard
\* interrupt; a server-initiated drop only prints a notice and leaves the
\* main thread where it is; a keyboard interrupt in any state, also while
\* Disconnected or during the connection attempt, calls sio.disconnect()
\* once and ends the process with exit code 0.
C10_OnlyInterruptTerminates ==
    /\ [][(connects > 0 /\ pc # "done" /\ pc' = "done") =>
             (disconnectCalls' = disconnectCalls + 1
                /\ exitStatus' = << 0 >>)]_vars
    /\ [][ServerDrop =>
             (pc' = pc /\ exitStatus' = exitStatus
                /\ output' = Append(output, "Disconnected from server"))]_vars
    /\ [][(KeyboardInterrupt /\ ~Connected) =>
             (disconnectCalls' = 1 /\ pc' = "done"
                /\ exitStatus' = << 0 >>)]_vars

C10_Witness ==
    /\ pc = "done"
    /\ exitStatus = << 0 >>
    /\ disconnectCalls = 1
    /\ connects > 0
    /\ output[Len(output)] = "Disconnecting..."
    /\ \E i \in 1..Len(output) : output[i] = "Disconnected from server"
====
